---- MODULE Spec2Model ----
(***************************************************************************)
(* Model of SAM_to_Oracle.py: clean_amount (the amount normaliser),        *)
(* transform_sheet_to_oracle (column identification, the per-record level  *)
(* expansion, the final sort) and transform_sam_to_oracle (the run over    *)
(* the General and the Research sheet).                                    *)
(*                                                                         *)
(* Text is a sequence of one-character strings.  An amount is a number of  *)
(* dollars and cents, [d |-> dollars, c |-> 0..99], standing for d + c/100 *)
(* (9999999999 cents do not fit TLC's integers).  The code holds amounts   *)
(* as Python floats and only compares them and picks one of two with       *)
(* max/min; on decimals of at most two places below 10^9 the float order   *)
(* is the decimal order, so the pair with its lexicographic order behaves  *)
(* as the float does.                                                      *)
(***************************************************************************)
EXTENDS Integers, Sequences, FiniteSets, TLC

VARIABLES
    amount_str, role_arg, clean_ret,      \* one direct call of clean_amount
    df, cols, idx, transformed_rows, cur, result, pc,   \* transform_sheet_to_oracle
    workbook, sheet_name, general_result, research_result, files, run_ret
                                          \* transform_sam_to_oracle

vars == <<amount_str, role_arg, clean_ret, df, cols, idx, transformed_rows, cur,
          result, pc, workbook, sheet_name, general_result, research_result,
          files, run_ret>>

clean_vars == <<amount_str, role_arg, clean_ret>>
sheet_vars == <<df, cols, idx, transformed_rows, cur, result>>
run_vars == <<workbook, sheet_name, general_result, research_result, files, run_ret>>

(***************************************************************************)
(* Cell values: a pandas null (NaN), Python's None, text, or a number used *)
(* as a key (cost center, Oracle ID).                                      *)
(***************************************************************************)
Null == [k |-> "null", s |-> <<>>, n |-> 0]
None == [k |-> "none", s |-> <<>>, n |-> 0]
Text(s) == [k |-> "text", s |-> s, n |-> 0]
Num(n) == [k |-> "num", s |-> <<>>, n |-> n]

\* pd.isna(x): true of NaN and of None
IsNa(x) == x.k \in {"null", "none"}

\* Python truth value of a cell: NaN is true, None and "" and 0 are false
Truthy(x) ==
    CASE x.k = "null" -> TRUE
      [] x.k = "none" -> FALSE
      [] x.k = "text" -> x.s # <<>>
      [] x.k = "num" -> x.n # 0

Digits == <<"0", "1", "2", "3", "4", "5", "6", "7", "8", "9">>
DigitSet == {Digits[i] : i \in 1..10}
DigitVal(ch) == (CHOOSE i \in 1..10 : Digits[i] = ch) - 1

RECURSIVE NatToText(_)
NatToText(n) == IF n < 10 THEN <<Digits[n + 1]>>
                ELSE Append(NatToText(n \div 10), Digits[(n % 10) + 1])

\* str(x)
Str(x) ==
    CASE x.k = "text" -> x.s
      [] x.k = "null" -> <<"n", "a", "n">>
      [] x.k = "none" -> <<"N", "o", "n", "e">>
      [] x.k = "num" -> NatToText(x.n)

Whitespace == {" ", "\t"}

\* str.strip(): leading and trailing whitespace removed
RECURSIVE LStrip(_)
LStrip(s) == IF s # <<>> /\ Head(s) \in Whitespace THEN LStrip(Tail(s)) ELSE s
RECURSIVE RStrip(_)
RStrip(s) == IF s # <<>> /\ s[Len(s)] \in Whitespace
             THEN RStrip(SubSeq(s, 1, Len(s) - 1)) ELSE s
Strip(s) == RStrip(LStrip(s))

\* str.replace(ch, '') for every ch of chars
Remove(s, chars) == SelectSeq(s, LAMBDA ch : ch \notin chars)

UpperToLower ==
    [A |-> "a", B |-> "b", C |-> "c", D |-> "d", E |-> "e", F |-> "f", G |-> "g",
     H |-> "h", I |-> "i", J |-> "j", K |-> "k", L |-> "l", M |-> "m", N |-> "n",
     O |-> "o", P |-> "p", Q |-> "q", R |-> "r", S |-> "s", T |-> "t", U |-> "u",
     V |-> "v", W |-> "w", X |-> "x", Y |-> "y", Z |-> "z"]

\* str.lower()
Lower(s) == [i \in 1..Len(s) |->
               IF s[i] \in DOMAIN UpperToLower THEN UpperToLower[s[i]] ELSE s[i]]

\* sub in s
Contains(sub, s) ==
    \E i \in 1..(Len(s) - Len(sub) + 1) : SubSeq(s, i, i + Len(sub) - 1) = sub

(***************************************************************************)
(* Amounts                                                                 *)
(***************************************************************************)
Amt(d, c) == [d |-> d, c |-> c]
ALt(a, b) == a.d < b.d \/ (a.d = b.d /\ a.c < b.c)
ALeq(a, b) == a.d < b.d \/ (a.d = b.d /\ a.c <= b.c)
\* mutants: max and min that keep the record's own bound
PyMax_NoClip(a, b) == a
PyMin_NoClip(a, b) == a
\* Python's max(a, b) and min(a, b): the first argument unless the second beats it
PyMax(a, b) == IF ALt(a, b) THEN b ELSE a
PyMin(a, b) == IF ALt(b, a) THEN b ELSE a

RECURSIVE DigitsToNat(_)
DigitsToNat(s) == IF s = <<>> THEN 0
                  ELSE 10 * DigitsToNat(SubSeq(s, 1, Len(s) - 1)) + DigitVal(s[Len(s)])

AllDigits(s) == \A i \in 1..Len(s) : s[i] \in DigitSet

(***************************************************************************)
(* float(s) on the decimal literals: an optional sign, digits, at most one *)
(* point, at least one digit.  Anything else is a ValueError (ok = FALSE). *)
(* The cells drawn below hold no exponent, no inf/nan word, no underscore  *)
(* and at most two decimal places, so this is float() on them.             *)
(***************************************************************************)
ParseFloat(s) ==
    LET signed == s # <<>> /\ s[1] \in {"+", "-"}
        neg == s # <<>> /\ s[1] = "-"
        body == IF signed THEN Tail(s) ELSE s
        dots == {i \in 1..Len(body) : body[i] = "."}
        dot == IF dots = {} THEN Len(body) + 1 ELSE CHOOSE i \in dots : TRUE
        ip == SubSeq(body, 1, dot - 1)
        fp == SubSeq(body, dot + 1, Len(body))
        ok == /\ Cardinality(dots) <= 1
              /\ AllDigits(ip) /\ AllDigits(fp)
              /\ Len(ip) + Len(fp) >= 1
              /\ Len(fp) <= 2
        whole == DigitsToNat(ip)
        cents == CASE Len(fp) = 0 -> 0
                   [] Len(fp) = 1 -> 10 * DigitVal(fp[1])
                   [] Len(fp) = 2 -> 10 * DigitVal(fp[1]) + DigitVal(fp[2])
    IN  IF ~ok THEN [ok |-> FALSE, val |-> Amt(0, 0)]
        ELSE IF ~neg THEN [ok |-> TRUE, val |-> Amt(whole, cents)]
        ELSE IF cents = 0 THEN [ok |-> TRUE, val |-> Amt(0 - whole, 0)]
        ELSE [ok |-> TRUE, val |-> Amt(0 - whole - 1, 100 - cents)]

Reviewer == <<"r", "e", "v", "i", "e", "w", "e", "r">>

(***************************************************************************)
(* clean_amount.  The result is [raised, val]: raised is the               *)
(* AttributeError of role.lower() on a role that is true but no string.    *)
(***************************************************************************)
\* `role and 'reviewer' in role.lower()`, then return 0 or 1
SentinelFor(role) ==
    IF ~Truthy(role) THEN [raised |-> FALSE, val |-> Amt(1, 0)]
    ELSE IF role.k # "text" THEN [raised |-> TRUE, val |-> Amt(0, 0)]
    ELSE IF Contains(Reviewer, Lower(role.s)) THEN [raised |-> FALSE, val |-> Amt(0, 0)]
    ELSE [raised |-> FALSE, val |-> Amt(1, 0)]

clean_amount(a, role) ==
    IF IsNa(a) \/ Strip(Str(a)) = <<"-">> THEN SentinelFor(role)
    ELSE LET cleaned == Strip(Remove(Str(a), {" ", ",", "\""}))
             p == ParseFloat(cleaned)
         IN  IF p.ok THEN [raised |-> FALSE, val |-> p.val] ELSE SentinelFor(role)

(***************************************************************************)
(* The level table                                                         *)
(***************************************************************************)
\* mutant: level 2 starts at 1000.00, inside level 1
approval_levels_Overlapping ==
    << [level |-> 1, amount_from |-> Amt(1, 0),       amount_to |-> Amt(1000, 99)],
       [level |-> 2, amount_from |-> Amt(1000, 0),    amount_to |-> Amt(5000, 99)],
       [level |-> 3, amount_from |-> Amt(5001, 0),    amount_to |-> Amt(10000, 99)],
       [level |-> 4, amount_from |-> Amt(10001, 0),   amount_to |-> Amt(25000, 99)],
       [level |-> 5, amount_from |-> Amt(25001, 0),   amount_to |-> Amt(100000, 99)],
       [level |-> 6, amount_from |-> Amt(100001, 0),  amount_to |-> Amt(1000000, 99)],
       [level |-> 7, amount_from |-> Amt(1000001, 0), amount_to |-> Amt(99999999, 99)] >>

approval_levels ==
    << [level |-> 1, amount_from |-> Amt(1, 0),       amount_to |-> Amt(1000, 99)],
       [level |-> 2, amount_from |-> Amt(1001, 0),    amount_to |-> Amt(5000, 99)],
       [level |-> 3, amount_from |-> Amt(5001, 0),    amount_to |-> Amt(10000, 99)],
       [level |-> 4, amount_from |-> Amt(10001, 0),   amount_to |-> Amt(25000, 99)],
       [level |-> 5, amount_from |-> Amt(25001, 0),   amount_to |-> Amt(100000, 99)],
       [level |-> 6, amount_from |-> Amt(100001, 0),  amount_to |-> Amt(1000000, 99)],
       [level |-> 7, amount_from |-> Amt(1000001, 0), amount_to |-> Amt(99999999, 99)] >>

\* the literal of `threshold_to >= 99999999`
FullRangeTo == 99999999

(***************************************************************************)
(* Column identification: the for/elif chain over the stripped headers.    *)
(* A later matching column overwrites an earlier one; 0 stands for None.   *)
(***************************************************************************)
W_cost == <<"c", "o", "s", "t">>
W_center == <<"c", "e", "n", "t", "e", "r">>
W_oracle == <<"o", "r", "a", "c", "l", "e">>
W_id == <<"i", "d">>
W_threshold == <<"t", "h", "r", "e", "s", "h", "o", "l", "d">>
W_from == <<"f", "r", "o", "m">>
W_to == <<"t", "o">>
W_too == <<"t", "o", "o">>
W_role == <<"r", "o", "l", "e">>
W_type == <<"t", "y", "p", "e">>

Classify(col) ==
    LET l == Lower(col)
    IN  IF Contains(W_cost, l) /\ Contains(W_center, l) THEN "cost_center"
        ELSE IF Contains(W_oracle, l) /\ Contains(W_id, l) THEN "oracle_id"
        ELSE IF Contains(W_threshold, l) /\ Contains(W_from, l) THEN "threshold_from"
        ELSE IF Contains(W_threshold, l) /\ (Contains(W_to, l) \/ Contains(W_too, l))
             THEN "threshold_to"
        ELSE IF Contains(W_role, l) \/ Contains(W_type, l) THEN "role"
        ELSE "none"

ColumnOf(columns, field) ==
    LET hits == {i \in 1..Len(columns) : Classify(Strip(columns[i])) = field}
    IN  IF hits = {} THEN 0 ELSE CHOOSE i \in hits : \A j \in hits : j <= i

IdentifyColumns(columns) ==
    [cost_center_col    |-> ColumnOf(columns, "cost_center"),
     oracle_id_col      |-> ColumnOf(columns, "oracle_id"),
     threshold_from_col |-> ColumnOf(columns, "threshold_from"),
     threshold_to_col   |-> ColumnOf(columns, "threshold_to"),
     role_col           |-> ColumnOf(columns, "role")]

NoCols == [cost_center_col |-> 0, oracle_id_col |-> 0, threshold_from_col |-> 0,
           threshold_to_col |-> 0, role_col |-> 0]

\* all([cost_center_col, oracle_id_col, threshold_from_col, threshold_to_col])
RequiredFound(c) ==
    /\ c.cost_center_col # 0 /\ c.oracle_id_col # 0
    /\ c.threshold_from_col # 0 /\ c.threshold_to_col # 0

\* df.dropna(subset=[cost_center_col, oracle_id_col], how='all')
DropNa(rows, c) ==
    SelectSeq(rows, LAMBDA r : ~(IsNa(r[c.cost_center_col]) /\ IsNa(r[c.oracle_id_col])))

(***************************************************************************)
(* The level expansion of one record (the body of the row loop after the   *)
(* skip test).                                                             *)
(***************************************************************************)
OutRow(cost_center, level, role, oracle_id, from, to) ==
    [cost_center |-> cost_center, level |-> level, type |-> "Employee", role |-> role,
     oracle_id |-> oracle_id, threshold_amount_from |-> from, threshold_amount_to |-> to]

\* `role and 'reviewer' in str(role).lower()`
IsReviewer(role) == Truthy(role) /\ Contains(Reviewer, Lower(Str(role)))

\* mutant: the pass without the overlap test
RECURSIVE ClipLevels_NoOverlapTest(_, _, _, _, _, _)
ClipLevels_NoOverlapTest(i, cost_center, oracle_id, role, from, to) ==
    IF i > Len(approval_levels) THEN <<>>
    ELSE <<OutRow(cost_center, approval_levels[i].level, role, oracle_id,
                  PyMax(from, approval_levels[i].amount_from),
                  PyMin(to, approval_levels[i].amount_to))>>
         \o ClipLevels_NoOverlapTest(i + 1, cost_center, oracle_id, role, from, to)

\* one pass of `for level_info in approval_levels` with the overlap test
RECURSIVE ClipLevels(_, _, _, _, _, _)
ClipLevels(i, cost_center, oracle_id, role, from, to) ==
    IF i > Len(approval_levels) THEN <<>>
    ELSE LET level_info == approval_levels[i]
             range_start == PyMax(from, level_info.amount_from)
             range_end == PyMin(to, level_info.amount_to)
             rest == ClipLevels(i + 1, cost_center, oracle_id, role, from, to)
         IN  IF ALeq(range_start, range_end)
             THEN <<OutRow(cost_center, level_info.level, role, oracle_id,
                           range_start, range_end)>> \o rest
             ELSE rest

\* the full-range loop: every level with the table's own bounds
FullRange(cost_center, oracle_id) ==
    [i \in 1..Len(approval_levels) |->
        OutRow(cost_center, approval_levels[i].level, "APPROVER", oracle_id,
               approval_levels[i].amount_from, approval_levels[i].amount_to)]

IsFullRange(from, to) == from = Amt(1, 0) /\ ALeq(Amt(FullRangeTo, 0), to)

\* mutant: the reviewer path without its 0..0 branch
ReviewerRows_NoSentinel(cost_center, oracle_id, from, to) ==
    ClipLevels(1, cost_center, oracle_id, "REVIEWER", from, to)

ReviewerRows(cost_center, oracle_id, from, to) ==
    IF from = Amt(0, 0) /\ to = Amt(0, 0)
    THEN <<OutRow(cost_center, 1, "REVIEWER", oracle_id, Amt(0, 0), Amt(0, 0))>>
    ELSE ClipLevels(1, cost_center, oracle_id, "REVIEWER", from, to)

\* mutant: the approver path without the full-range branch
ApproverRows_NoShortCircuit(cost_center, oracle_id, from, to) ==
    ClipLevels(1, cost_center, oracle_id, "APPROVER", from, to)

ApproverRows(cost_center, oracle_id, from, to) ==
    IF IsFullRange(from, to)
    THEN FullRange(cost_center, oracle_id)
    ELSE ClipLevels(1, cost_center, oracle_id, "APPROVER", from, to)

Expand(cost_center, oracle_id, role, from, to) ==
    IF IsReviewer(role)
    THEN ReviewerRows(cost_center, oracle_id, from, to)
    ELSE ApproverRows(cost_center, oracle_id, from, to)

(***************************************************************************)
(* result_df.sort_values(['Cost Center', 'Oracle ID', 'Level']): a stable  *)
(* sort on the three keys.                                                 *)
(***************************************************************************)
\* mutant: sorted by Cost Center and Level only
KeyLeq_CostCenterLevel(a, b) ==
    \/ a.cost_center.n < b.cost_center.n
    \/ (a.cost_center.n = b.cost_center.n /\ a.level <= b.level)

KeyLeq(a, b) ==
    \/ a.cost_center.n < b.cost_center.n
    \/ /\ a.cost_center.n = b.cost_center.n
       /\ \/ a.oracle_id.n < b.oracle_id.n
          \/ (a.oracle_id.n = b.oracle_id.n /\ a.level <= b.level)

RECURSIVE InsertRow(_, _)
InsertRow(sorted, r) ==
    IF sorted = <<>> THEN <<r>>
    ELSE IF KeyLeq(sorted[Len(sorted)], r) THEN Append(sorted, r)
    ELSE Append(InsertRow(SubSeq(sorted, 1, Len(sorted) - 1), r), sorted[Len(sorted)])

RECURSIVE SortFrom(_, _, _)
SortFrom(rows, i, acc) ==
    IF i > Len(rows) THEN acc ELSE SortFrom(rows, i + 1, InsertRow(acc, rows[i]))

sort_values(rows) == SortFrom(rows, 1, <<>>)

(***************************************************************************)
(* Inputs.  A sheet is [columns, rows]; every row holds one cell per       *)
(* column, in the order cost center, Oracle ID, from, to, role.            *)
(***************************************************************************)
ColumnsFull == << <<" ", "C", "o", "s", "t", " ", "C", "e", "n", "t", "e", "r">>, <<"O", "r", "a", "c", "l", "e", " ", "I", "D">>, <<"T", "h", "r", "e", "s", "h", "o", "l", "d", " ", "F", "r", "o", "m">>,
                  <<"T", "h", "r", "e", "s", "h", "o", "l", "d", " ", "T", "o">>, <<"R", "o", "l", "e">> >>
ColumnsNoRole == << <<"C", "o", "s", "t", " ", "C", "e", "n", "t", "e", "r">>, <<"O", "r", "a", "c", "l", "e", " ", "I", "D">>, <<"T", "h", "r", "e", "s", "h", "o", "l", "d", " ", "F", "r", "o", "m">>,
                    <<"T", "h", "r", "e", "s", "h", "o", "l", "d", " ", "T", "o">>, <<"N", "a", "m", "e">> >>
ColumnsNoTo == << <<"C", "o", "s", "t", " ", "C", "e", "n", "t", "e", "r">>, <<"O", "r", "a", "c", "l", "e", " ", "I", "D">>, <<"T", "h", "r", "e", "s", "h", "o", "l", "d", " ", "F", "r", "o", "m">>,
                  <<"L", "i", "m", "i", "t">>, <<"A", "p", "p", "r", "o", "v", "e", "r", " ", "T", "y", "p", "e">> >>
Layouts == {ColumnsFull, ColumnsNoRole, ColumnsNoTo}

R_Reviewer == Text(<<"R", "e", "v", "i", "e", "w", "e", "r">>)
R_REVIEWER == Text(<<"R", "E", "V", "I", "E", "W", "E", "R", " ">>)
R_Approver == Text(<<"A", "p", "p", "r", "o", "v", "e", "r">>)
R_Empty == Text(<<>>)
Roles == {Null, R_Reviewer, R_REVIEWER, R_Approver, R_Empty}

RawCells ==
    {Null, Text(<<"-">>), Text(<<" ", "-", " ">>), Text(<<"n", "/", "a">>), Text(<<"0">>), Text(<<"1">>),
     Text(<<"9", "0", "0">>), Text(<<"1", "0", "0", "0", ".", "9", "9">>), Text(<<"1", "0", "0", "1", ".", "0", "0">>), Text(<<"1", ",", "5", "0", "0">>),
     Text(<<"\"", "5", ",", "0", "0", "0", ".", "9", "9", "\"">>), Text(<<"9", "9", "9", "9", "9", "9", "9", "9">>), Text(<<"9", "9", "9", "9", "9", "9", "9", "9", ".", "9", "9">>),
     Text(<<"1", "0", "0", "0", "0", "0", "0", "0", "0">>), Text(<<"-", "5">>)}

MakeRow(cc, oid, from, to, role) == <<cc, oid, from, to, role>>

\* one record of every kind, on every layout
OneRecordSheets ==
    {[columns |-> c, rows |-> <<MakeRow(cc, oid, f, t, r)>>] :
        c \in Layouts, cc \in {Null, Num(10)}, oid \in {Null, Num(7)},
        f \in RawCells, t \in RawCells, r \in Roles}

\* the records the longer sheets are made of
SmallRecords ==
    {MakeRow(Num(20), Num(2), Text(<<"1">>), Text(<<"1", "0", "0", "0", "0", "0", "0", "0", "0">>), R_Approver),
     MakeRow(Num(10), Num(2), Text(<<"9", "0", "0">>), Text(<<"1", ",", "5", "0", "0">>), R_Reviewer),
     MakeRow(Num(10), Num(1), Text(<<"-">>), Text(<<"\"", "5", ",", "0", "0", "0", ".", "9", "9", "\"">>), R_Approver),
     MakeRow(Num(20), Num(1), Text(<<"-">>), Null, R_REVIEWER),
     MakeRow(Null, Num(1), Text(<<"9", "0", "0">>), Text(<<"1", ",", "5", "0", "0">>), R_Approver),
     MakeRow(Null, Null, Text(<<"-">>), Text(<<"-">>), Null),
     MakeRow(Num(10), Num(1), Text(<<"-">>), Text(<<"9", "0", "0">>), Null)}

\* the longest sheet of several records
MaxRecords == 2

RECURSIVE SeqsUpTo(_, _)
SeqsUpTo(S, n) ==
    IF n = 0 THEN {<<>>}
    ELSE LET shorter == SeqsUpTo(S, n - 1)
         IN  shorter \cup {Append(s, x) : s \in {q \in shorter : Len(q) = n - 1}, x \in S}

SmallSheets == {[columns |-> ColumnsFull, rows |-> rs] : rs \in SeqsUpTo(SmallRecords, MaxRecords)}

Sheets == OneRecordSheets \cup SmallSheets

(***************************************************************************)
(* State of one call of transform_sheet_to_oracle                          *)
(***************************************************************************)
NotRun == [k |-> "notrun", rows |-> <<>>]
ResultNone == [k |-> "none", rows |-> <<>>]
Table(rows) == [k |-> "table", rows |-> rows]
NoFile == [k |-> "nofile", rows |-> <<>>]

NoCur == [handled |-> FALSE, cost_center |-> Null, oracle_id |-> Null, role |-> Null,
          threshold_from |-> Amt(0, 0), threshold_to |-> Amt(0, 0),
          raised |-> FALSE, skipped |-> FALSE, emitted |-> <<>>]

EmptySheet == [columns |-> <<>>, rows |-> <<>>]

\* lines 45-89: identify the columns; give up, or drop the rows without both keys
Identify ==
    /\ pc = "identify"
    /\ LET c == IdentifyColumns(df.columns)
       IN  IF ~RequiredFound(c)
           THEN /\ cols' = c
                /\ result' = ResultNone
                /\ pc' = "returned"
                /\ UNCHANGED <<df, idx, transformed_rows>>
           ELSE /\ cols' = c
                /\ df' = [df EXCEPT !.rows = DropNa(df.rows, c)]
                /\ idx' = 1
                /\ transformed_rows' = <<>>
                /\ pc' = "loop"
                /\ UNCHANGED result
    /\ UNCHANGED <<cur, clean_vars, run_vars>>

\* lines 91-182: one iteration of `for index, row in df.iterrows()`
ProcessRow ==
    /\ pc = "loop"
    /\ idx <= Len(df.rows)
    /\ LET row == df.rows[idx]
           cost_center == row[cols.cost_center_col]
           oracle_id == row[cols.oracle_id_col]
           role == IF cols.role_col # 0 THEN row[cols.role_col] ELSE R_Approver
           threshold_from == clean_amount(row[cols.threshold_from_col], role)
           threshold_to == clean_amount(row[cols.threshold_to_col], role)
           seen == [NoCur EXCEPT !.handled = TRUE, !.cost_center = cost_center,
                                 !.oracle_id = oracle_id, !.role = role]
       IN  IF threshold_from.raised \/ threshold_to.raised
           THEN /\ cur' = [seen EXCEPT !.raised = TRUE]
                /\ pc' = "raised"
                /\ UNCHANGED <<idx, transformed_rows>>
           ELSE IF IsNa(cost_center) \/ IsNa(oracle_id)
           THEN /\ cur' = [seen EXCEPT !.skipped = TRUE,
                                       !.threshold_from = threshold_from.val,
                                       !.threshold_to = threshold_to.val]
                /\ idx' = idx + 1
                /\ UNCHANGED <<pc, transformed_rows>>
           ELSE LET emitted == Expand(cost_center, oracle_id, role,
                                      threshold_from.val, threshold_to.val)
                IN  /\ cur' = [seen EXCEPT !.threshold_from = threshold_from.val,
                                           !.threshold_to = threshold_to.val,
                                           !.emitted = emitted]
                    /\ transformed_rows' = transformed_rows \o emitted
                    /\ idx' = idx + 1
                    /\ UNCHANGED pc
    /\ UNCHANGED <<df, cols, result, clean_vars, run_vars>>

\* lines 184-198: no rows, no result; else the sorted table
FinishSheet ==
    /\ pc = "loop"
    /\ idx > Len(df.rows)
    /\ result' = IF Len(transformed_rows) = 0 THEN ResultNone
                 ELSE Table(sort_values(transformed_rows))
    /\ pc' = "returned"
    /\ UNCHANGED <<df, cols, idx, transformed_rows, cur, clean_vars, run_vars>>

NoWorkbook == [openable |-> FALSE, sheets |-> <<>>]

InitSheet ==
    /\ df \in Sheets
    /\ pc = "identify"
    /\ cols = NoCols /\ idx = 0 /\ transformed_rows = <<>> /\ cur = NoCur
    /\ result = NotRun
    /\ amount_str = Null /\ role_arg = None /\ clean_ret = [raised |-> FALSE, val |-> Amt(0, 0)]
    /\ workbook = NoWorkbook /\ sheet_name = "General"
    /\ general_result = NotRun /\ research_result = NotRun
    /\ files = [General |-> NoFile, Research |-> NoFile]
    /\ run_ret = "none"

NextSheet == Identify \/ ProcessRow \/ FinishSheet

SpecSheet == InitSheet /\ [][NextSheet]_vars

(***************************************************************************)
(* Properties of the level expansion, stated on cur: the record the row    *)
(* loop handled last, its cleaned pair and the rows it emitted.            *)
(***************************************************************************)
\* the record passed the skip test and was expanded
Expanded == cur.handled /\ ~cur.raised /\ ~cur.skipped

\* the role values that hold 'reviewer' in some letter case
ReviewerRoles == {R_Reviewer, R_REVIEWER}

ReviewerSentinelCase ==
    cur.role \in ReviewerRoles /\ cur.threshold_from = Amt(0, 0) /\ cur.threshold_to = Amt(0, 0)

ApproverFullRangeCase ==
    /\ cur.role \notin ReviewerRoles
    /\ cur.threshold_from = Amt(1, 0)
    /\ ALeq(Amt(99999999, 0), cur.threshold_to)

AMax(a, b) == IF ALeq(a, b) THEN b ELSE a
AMin(a, b) == IF ALeq(a, b) THEN a ELSE b

LevelOf(n) == CHOOSE L \in {approval_levels[i] : i \in 1..7} : L.level = n

InsideItsLevel(r) ==
    /\ r.level \in 1..7
    /\ ALeq(LevelOf(r.level).amount_from, r.threshold_amount_from)
    /\ ALeq(r.threshold_amount_to, LevelOf(r.level).amount_to)

Triple(r) == <<r.level, r.threshold_amount_from, r.threshold_amount_to>>

EmittedTriples == {Triple(cur.emitted[i]) : i \in 1..Len(cur.emitted)}

\* C1 as claimed: every emitted row, the sentinel cases included, lies inside the
\* bounds of the level it names.
C1_RowsInsideLevel ==
    Expanded => \A i \in 1..Len(cur.emitted) : InsideItsLevel(cur.emitted[i])

\* C1 amended: every row emitted for a record other than the reviewer sentinel case
\* (reviewer, from = 0, to = 0) lies inside the bounds of the level it names; the
\* reviewer sentinel record's one row is (level 1, 0, 0), below level 1's lower bound.
C1_RowsInsideLevelButSentinel ==
    Expanded =>
        IF ReviewerSentinelCase
        THEN /\ EmittedTriples = {<<1, Amt(0, 0), Amt(0, 0)>>}
             /\ ~InsideItsLevel(cur.emitted[1])
        ELSE \A i \in 1..Len(cur.emitted) : InsideItsLevel(cur.emitted[i])

C1_Witness ==
    /\ Expanded /\ ~ReviewerSentinelCase
    /\ cur.threshold_from = Amt(900, 0) /\ cur.threshold_to = Amt(5000, 99)
    /\ Len(cur.emitted) = 2

\* C2: a record with a null cost center or a null Oracle ID emits no row and raises
\* nothing, whatever its other cells hold, and the loop goes on to the next record.
C2_MissingKeySkippedSilently ==
    (cur.handled /\ (IsNa(cur.cost_center) \/ IsNa(cur.oracle_id))) =>
        (~cur.raised /\ cur.emitted = <<>> /\ pc \in {"loop", "returned"})

\* C4: an approver record with cleaned from = 1 and cleaned to >= 99999999 gets
\* exactly the seven table levels, in order, each with the table's own bounds.
C4_FullRangeSevenRows ==
    (Expanded /\ ApproverFullRangeCase) =>
        /\ Len(cur.emitted) = 7
        /\ \A i \in 1..7 :
              /\ cur.emitted[i].level = i
              /\ cur.emitted[i].role = "APPROVER"
              /\ cur.emitted[i].threshold_amount_from = approval_levels[i].amount_from
              /\ cur.emitted[i].threshold_amount_to = approval_levels[i].amount_to
              /\ cur.emitted[i].cost_center = cur.cost_center
              /\ cur.emitted[i].oracle_id = cur.oracle_id

C4_Witness ==
    /\ Expanded /\ ApproverFullRangeCase
    /\ cur.threshold_to = Amt(100000000, 0)
    /\ Len(cur.emitted) = 7
    /\ cur.emitted[7].threshold_amount_to = Amt(99999999, 99)

\* C5: outside the reviewer sentinel case and the approver full-range case the
\* emitted rows are exactly the non-empty intersections of [from, to] with the
\* levels, one row each; the role only decides the Role value.
C5_ExactlyTheClippedLevels ==
    (Expanded /\ ~ReviewerSentinelCase /\ ~ApproverFullRangeCase) =>
        /\ EmittedTriples =
              {<<approval_levels[i].level,
                 AMax(cur.threshold_from, approval_levels[i].amount_from),
                 AMin(cur.threshold_to, approval_levels[i].amount_to)>> :
                 i \in {j \in 1..7 :
                          ALeq(AMax(cur.threshold_from, approval_levels[j].amount_from),
                               AMin(cur.threshold_to, approval_levels[j].amount_to))}}
        /\ Len(cur.emitted) = Cardinality(EmittedTriples)
        /\ \A i \in 1..Len(cur.emitted) :
              /\ cur.emitted[i].role =
                    (IF cur.role \in ReviewerRoles THEN "REVIEWER" ELSE "APPROVER")
              /\ cur.emitted[i].type = "Employee"
              /\ cur.emitted[i].cost_center = cur.cost_center
              /\ cur.emitted[i].oracle_id = cur.oracle_id

C5_Witness ==
    /\ Expanded /\ cur.role \in ReviewerRoles
    /\ cur.threshold_from = Amt(900, 0) /\ cur.threshold_to = Amt(1500, 0)
    /\ EmittedTriples = {<<1, Amt(900, 0), Amt(1000, 99)>>, <<2, Amt(1001, 0), Amt(1500, 0)>>}

\* C6: a reviewer record whose cleaned from and to are both 0 gets exactly one row,
\* (Level 1, REVIEWER, 0, 0); no approver record gets a 0..0 row or a REVIEWER row.
C6_ReviewerSentinelRow ==
    Expanded =>
        /\ ReviewerSentinelCase =>
              cur.emitted = <<OutRow(cur.cost_center, 1, "REVIEWER", cur.oracle_id,
                                     Amt(0, 0), Amt(0, 0))>>
        /\ cur.role \notin ReviewerRoles =>
              \A i \in 1..Len(cur.emitted) :
                  /\ cur.emitted[i].role = "APPROVER"
                  /\ Triple(cur.emitted[i]) # <<1, Amt(0, 0), Amt(0, 0)>>

C6_Witness ==
    /\ Expanded /\ cur.role = R_REVIEWER
    /\ df.rows[idx - 1][3] = Text(<<"-">>) /\ df.rows[idx - 1][4] = Null
    /\ Len(cur.emitted) = 1

\* C7: no emitted row has from > to, and a record whose cleaned from exceeds its
\* cleaned to emits no row.
C7_NoInvertedRow ==
    Expanded =>
        /\ \A i \in 1..Len(cur.emitted) :
              ALeq(cur.emitted[i].threshold_amount_from, cur.emitted[i].threshold_amount_to)
        /\ ALt(cur.threshold_to, cur.threshold_from) => cur.emitted = <<>>

C7_Witness ==
    /\ Expanded
    /\ cur.threshold_from = Amt(5000, 99) /\ cur.threshold_to = Amt(900, 0)
    /\ cur.emitted = <<>>

\* C10: the rows of one record are in strictly ascending level order and their
\* ranges are pairwise disjoint; a range ending on a level's upper bound gets that
\* level and not the next, one starting on a level's lower bound gets that level
\* and not the previous.
C10_AscendingDisjoint ==
    Expanded =>
        /\ \A i, j \in 1..Len(cur.emitted) :
              i < j => /\ cur.emitted[i].level < cur.emitted[j].level
                       /\ ALt(cur.emitted[i].threshold_amount_to,
                              cur.emitted[j].threshold_amount_from)
        /\ \A n \in 1..7 :
              /\ (/\ cur.threshold_to = LevelOf(n).amount_to
                  /\ ALeq(cur.threshold_from, cur.threshold_to)) =>
                     /\ n \in {t[1] : t \in EmittedTriples}
                     /\ (n + 1) \notin {t[1] : t \in EmittedTriples}
              /\ (/\ cur.threshold_from = LevelOf(n).amount_from
                  /\ ALeq(cur.threshold_from, cur.threshold_to)) =>
                     /\ n \in {t[1] : t \in EmittedTriples}
                     /\ (n - 1) \notin {t[1] : t \in EmittedTriples}

C10_Witness ==
    /\ Expanded
    /\ cur.threshold_from = Amt(1001, 0) /\ cur.threshold_to = Amt(99999999, 0)
    /\ {t[1] : t \in EmittedTriples} = 2..7

\* the order sort_values is to produce, on (Cost Center, Oracle ID, Level)
LexLeq(a, b) ==
    LET ka == <<a.cost_center.n, a.oracle_id.n, a.level>>
        kb == <<b.cost_center.n, b.oracle_id.n, b.level>>
    IN  \/ ka = kb
        \/ \E p \in 1..3 : ka[p] < kb[p] /\ \A q \in 1..(p - 1) : ka[q] = kb[q]

Count(rows, x) == Cardinality({i \in 1..Len(rows) : rows[i] = x})

\* C9: a returned table is in non-decreasing order of (Cost Center, Oracle ID,
\* Level), so the rows of one (cost center, Oracle ID) pair are contiguous, and it
\* holds exactly the rows the records emitted, each as often as it was emitted.
C9_SortedSameRows ==
    (pc = "returned" /\ result.k = "table") =>
        /\ \A i, j \in 1..Len(result.rows) : i < j => LexLeq(result.rows[i], result.rows[j])
        /\ \A i, j, m \in 1..Len(result.rows) :
              (/\ i < j /\ j < m
               /\ result.rows[i].cost_center = result.rows[m].cost_center
               /\ result.rows[i].oracle_id = result.rows[m].oracle_id) =>
                  /\ result.rows[j].cost_center = result.rows[i].cost_center
                  /\ result.rows[j].oracle_id = result.rows[i].oracle_id
        /\ Len(result.rows) = Len(transformed_rows)
        /\ \A i \in 1..Len(transformed_rows) :
              Count(result.rows, transformed_rows[i]) = Count(transformed_rows, transformed_rows[i])

C9_Witness ==
    /\ pc = "returned" /\ result.k = "table"
    /\ result.rows # transformed_rows
    /\ Len(result.rows) = 4
    /\ \A i \in 1..4 : result.rows[i].cost_center = Num(10)
    /\ {result.rows[i].oracle_id : i \in 1..4} = {Num(1), Num(2)}

(***************************************************************************)
(* A direct call of clean_amount                                           *)
(***************************************************************************)
CleanAmountCall ==
    /\ pc = "call"
    /\ clean_ret' = clean_amount(amount_str, role_arg)
    /\ pc' = "called"
    /\ UNCHANGED <<amount_str, role_arg, sheet_vars, run_vars>>

InitClean ==
    /\ amount_str \in RawCells \cup {None}
    /\ role_arg \in Roles \cup {None}
    /\ clean_ret = [raised |-> FALSE, val |-> Amt(0, 0)]
    /\ pc = "call"
    /\ df = EmptySheet /\ cols = NoCols /\ idx = 0 /\ transformed_rows = <<>>
    /\ cur = NoCur /\ result = NotRun
    /\ workbook = NoWorkbook /\ sheet_name = "General"
    /\ general_result = NotRun /\ research_result = NotRun
    /\ files = [General |-> NoFile, Research |-> NoFile]
    /\ run_ret = "none"

NextClean == CleanAmountCall

SpecClean == InitClean /\ [][NextClean]_vars

\* the raw values that are null, '-' once trimmed, or no number
SentinelCells == {Null, None, Text(<<"-">>), Text(<<" ", "-", " ">>), Text(<<"n", "/", "a">>)}

\* C3: on a raw value that is null, '-' or unparseable, clean_amount returns 0 for a
\* role holding 'reviewer' and 1 for every other role, a null or absent one
\* included, and never raises.
C3_SentinelNeverRaises ==
    (pc = "called" /\ amount_str \in SentinelCells) =>
        /\ ~clean_ret.raised
        /\ clean_ret.val = (IF role_arg \in ReviewerRoles THEN Amt(0, 0) ELSE Amt(1, 0))

(***************************************************************************)
(* transform_sam_to_oracle: the run over the two sheets.  A workbook is    *)
(* [openable, sheets]; a sheet entry is [present, readable, data].         *)
(***************************************************************************)
\* the longest sheet of a workbook
MaxRunRecords == 1

RunSheets ==
    {[columns |-> ColumnsFull, rows |-> rs] : rs \in SeqsUpTo(SmallRecords, MaxRunRecords)}
    \cup {[columns |-> ColumnsNoTo,
           rows |-> <<MakeRow(Num(10), Num(1), Text(<<"1">>), Text(<<"9", "0", "0">>), R_Approver)>>]}

Absent == [present |-> FALSE, readable |-> FALSE, data |-> EmptySheet]

SheetEntries ==
    {Absent, [present |-> TRUE, readable |-> FALSE, data |-> EmptySheet]}
    \cup {[present |-> TRUE, readable |-> TRUE, data |-> s] : s \in RunSheets}

Workbooks ==
    {NoWorkbook} \cup
    {[openable |-> TRUE, sheets |-> [General |-> g, Research |-> r]] :
        g \in SheetEntries, r \in SheetEntries}

PcOf(name) == IF name = "General" THEN "general" ELSE "research"

\* mutant: the run ends after the first sheet it is through with
AfterSheet_Stop(name) == "return"

\* where the run goes once it is through with a sheet
AfterSheet(name) == IF name = "General" THEN "research" ELSE "return"

\* line 207: pd.ExcelFile(input_file), which raises on a file it cannot open
OpenWorkbook ==
    /\ pc = "open"
    /\ pc' = IF workbook.openable THEN "general" ELSE "raised"
    /\ UNCHANGED <<clean_vars, sheet_vars, run_vars>>

\* lines 211-217, 225-226 and 229-235, 243-244: the sheet is absent, or read_excel
\* raises, or transform_sheet_to_oracle is entered with the sheet's data
BeginSheet(name) ==
    /\ pc = PcOf(name)
    /\ LET e == workbook.sheets[name]
       IN  IF ~e.present
           THEN /\ pc' = AfterSheet(name)
                /\ UNCHANGED <<sheet_vars, sheet_name>>
           ELSE IF ~e.readable
           THEN /\ pc' = "raised"
                /\ UNCHANGED <<sheet_vars, sheet_name>>
           ELSE /\ df' = e.data
                /\ sheet_name' = name
                /\ cols' = NoCols /\ idx' = 0 /\ transformed_rows' = <<>>
                /\ cur' = NoCur /\ result' = NotRun
                /\ pc' = "identify"
    /\ UNCHANGED <<clean_vars, workbook, general_result, research_result, files, run_ret>>

\* lines 217-224 and 235-242: keep the result; write the workbook unless it is None
SaveSheet(name) ==
    /\ pc = "returned"
    /\ sheet_name = name
    /\ IF name = "General"
       THEN general_result' = result /\ UNCHANGED research_result
       ELSE research_result' = result /\ UNCHANGED general_result
    /\ files' = IF result.k = "table" THEN [files EXCEPT ![name] = result] ELSE files
    /\ pc' = AfterSheet(name)
    /\ UNCHANGED <<clean_vars, sheet_vars, workbook, sheet_name, run_ret>>

\* line 246
ReturnTrue ==
    /\ pc = "return"
    /\ run_ret' = "True"
    /\ pc' = "done"
    /\ UNCHANGED <<clean_vars, sheet_vars, workbook, sheet_name, general_result,
                   research_result, files>>

\* lines 248-252: any exception ends the run with False; nothing is undone
Except ==
    /\ pc = "raised"
    /\ run_ret' = "False"
    /\ pc' = "done"
    /\ UNCHANGED <<clean_vars, sheet_vars, workbook, sheet_name, general_result,
                   research_result, files>>

Init ==
    /\ workbook \in Workbooks
    /\ pc = "open"
    /\ df = EmptySheet /\ cols = NoCols /\ idx = 0 /\ transformed_rows = <<>>
    /\ cur = NoCur /\ result = NotRun
    /\ amount_str = Null /\ role_arg = None /\ clean_ret = [raised |-> FALSE, val |-> Amt(0, 0)]
    /\ sheet_name = "none"
    /\ general_result = NotRun /\ research_result = NotRun
    /\ files = [General |-> NoFile, Research |-> NoFile]
    /\ run_ret = "none"

Next ==
    \/ OpenWorkbook
    \/ BeginSheet("General")
    \/ BeginSheet("Research")
    \/ Identify
    \/ ProcessRow
    \/ FinishSheet
    \/ SaveSheet("General")
    \/ SaveSheet("Research")
    \/ ReturnTrue
    \/ Except

Spec == Init /\ [][Next]_vars

ResultOf(name) == IF name = "General" THEN general_result ELSE research_result
Other(name) == IF name = "General" THEN "Research" ELSE "General"

\* the sheet-level failures, read off the workbook and off what the transform returned
SheetLevelFailure(name) ==
    \/ ~workbook.sheets[name].present
    \/ ResultOf(name) = ResultNone

\* a sheet that is there, can be read and has its columns and a record that expands
GoodSheet(name) ==
    /\ workbook.sheets[name].present /\ workbook.sheets[name].readable
    /\ workbook.sheets[name].data.columns = ColumnsFull
    /\ \E i \in 1..Len(workbook.sheets[name].data.rows) :
          LET r == workbook.sheets[name].data.rows[i]
          IN  r[1] # Null /\ r[2] # Null
    /\ \A i \in 1..Len(workbook.sheets[name].data.rows) :
          workbook.sheets[name].data.rows[i][5] # Null

\* C8: a sheet that is absent, lacks a required column or yields no row gets no
\* output workbook and does not keep the other sheet from being processed and
\* written; when the Research sheet raises after the General output was written,
\* the run returns False and the General output is still there.
C8_SheetFailuresAreIsolated ==
    (pc = "done" /\ workbook.openable) =>
        /\ \A name \in {"General", "Research"} :
              /\ (~workbook.sheets[name].present
                  \/ workbook.sheets[name].data.columns = ColumnsNoTo
                  \/ (workbook.sheets[name].readable
                      /\ workbook.sheets[name].data.rows = <<>>)) =>
                     files[name] = NoFile
              /\ SheetLevelFailure(name) =>
                     /\ files[name] = NoFile
                     /\ (SheetLevelFailure(name) /\ GoodSheet(Other(name))) =>
                           /\ ResultOf(Other(name)).k = "table"
                           /\ files[Other(name)] = ResultOf(Other(name))
                           /\ run_ret = "True"
        /\ (run_ret = "False" /\ general_result.k = "table") =>
              /\ files.General = general_result
              /\ files.Research = NoFile

C8_Witness ==
    /\ pc = "done" /\ run_ret = "False"
    /\ general_result.k = "table" /\ files.General = general_result
    /\ sheet_name = "Research" /\ cur.raised

====
